---- MODULE Spec2Model ----
(***************************************************************************)
(* VoucherSnap: the upload-history ledger (history.py, models.py) and the  *)
(* part of the `run` workflow (cli.py) that reads and appends to it.       *)
(*                                                                         *)
(* Each process is one invocation of `vouchersnap run`: it constructs a    *)
(* HistoryManager over the shared history file, assembles the manifest,    *)
(* and walks the upload loop, calling create_record after every upload     *)
(* that returned a photo id.  _save is two steps, as in the code: the      *)
(* open(path, "w") that truncates the file, then the json.dump and close.  *)
(***************************************************************************)
EXTENDS Integers, Sequences, FiniteSets, TLC

(***************************************************************************)
(* Bounds and input domains                                                *)
(***************************************************************************)
\* the longest list of scanned images one run is given
MaxItems == 2

\* the same for each of two concurrent runs
MaxSharedItems == 1

\* the most rasters of one image the decoder finds a symbol on
MaxMarks == 2

\* the longest list of paths scan_batch is given
MaxBatch == 3

\* the longest list of symbols the decoder returns for one raster
MaxSymbols == 3

\* the longest ledger a query is called on
MaxLedger == 3

\* the most digit tokens after the path of a text
MaxDigits == 2

\* the most runs of equal bytes in a hashed file
MaxRuns == 2

\* the processes of the concurrent specification; the solo one runs Solo only
Procs == {"p1", "p2"}
Solo == "p1"

\* Optional[T]: None, or a value
None == <<>>
Some(x) == <<x>>

\* the image files on disk: b.jpg is a byte-identical copy of a.jpg
ImageFiles ==
  << [filename |-> "a.jpg", image_hash |-> "d1", observation_id |-> 1],
     [filename |-> "b.jpg", image_hash |-> "d1", observation_id |-> 1],
     [filename |-> "c.jpg", image_hash |-> "d2", observation_id |-> 2] >>

Digests == {"d1", "d2"}
ObsIds == {1, 2}

\* the photo id the remote service returns for the i-th item of process p
PhotoIdOf(p, i) == (IF p = Solo THEN 100 ELSE 200) + i

RECURSIVE IncreasingSeqs(_, _)
\* the strictly increasing index sequences over lo..Len(ImageFiles), at most n long
IncreasingSeqs(lo, n) ==
  IF n = 0 THEN {<<>>}
  ELSE {<<>>} \cup
       UNION {{<<i>> \o s : s \in IncreasingSeqs(i + 1, n - 1)} :
              i \in lo..Len(ImageFiles)}

\* the lists of at most n successful scans a run can start from:
\* resolve_paths sorts by name
ScanInputs(n) ==
  {[k \in 1..Len(s) |-> ImageFiles[s[k]]] :
     s \in IncreasingSeqs(1, n) \ {<<>>}}

(***************************************************************************)
(* models.py: UploadRecord and its JSON form                               *)
(***************************************************************************)
\* the UploadRecord dataclass
UploadRecord(image_hash, observation_id, filename, timestamp, caption, inat_photo_id) ==
  [image_hash |-> image_hash, observation_id |-> observation_id,
   filename |-> filename, timestamp |-> timestamp, caption |-> caption,
   inat_photo_id |-> inat_photo_id]

\* datetime.isoformat: the text of a timestamp
isoformat(t) == [type |-> "str", iso |-> TRUE, t |-> t]

\* a JSON string that is no ISO-8601 timestamp, and a JSON number
BadIsoText == [type |-> "str", iso |-> FALSE, t |-> 0]
NumberJson == [type |-> "num", iso |-> FALSE, t |-> 0]

\* datetime.fromisoformat: the exception it raises on v, or "ok"
fromisoformat_error(v) ==
  IF v.type # "str" THEN "TypeError"
  ELSE IF ~v.iso THEN "ValueError"
  ELSE "ok"

\* datetime.fromisoformat: the timestamp of a text that parses
fromisoformat(v) == v.t

\* to_dict that writes no caption
to_dict_without_caption(r) ==
  [image_hash |-> r.image_hash, observation_id |-> r.observation_id,
   filename |-> r.filename, timestamp |-> isoformat(r.timestamp),
   caption |-> None, inat_photo_id |-> r.inat_photo_id]

\* UploadRecord.to_dict
to_dict(r) ==
  [image_hash |-> r.image_hash, observation_id |-> r.observation_id,
   filename |-> r.filename, timestamp |-> isoformat(r.timestamp),
   caption |-> r.caption, inat_photo_id |-> r.inat_photo_id]

\* dict.get(key): None when the key is absent
DictGet(d, key) == IF key \in DOMAIN d THEN d[key] ELSE None

\* the exception UploadRecord.from_dict raises on d, or "ok"; the keyword
\* arguments are evaluated in the order written
from_dict_error(d) ==
  IF "image_hash" \notin DOMAIN d THEN "KeyError"
  ELSE IF "observation_id" \notin DOMAIN d THEN "KeyError"
  ELSE IF "filename" \notin DOMAIN d THEN "KeyError"
  ELSE IF "timestamp" \notin DOMAIN d THEN "KeyError"
  ELSE fromisoformat_error(d.timestamp)

\* UploadRecord.from_dict
from_dict(d) ==
  UploadRecord(d.image_hash, d.observation_id, d.filename,
               fromisoformat(d.timestamp), DictGet(d, "caption"),
               DictGet(d, "inat_photo_id"))

(***************************************************************************)
(* The history file                                                        *)
(*   kind "missing"   the path does not exist                              *)
(*        "empty"     zero bytes, as open(path, "w") leaves it             *)
(*        "partial"   a prefix of a dump, as an interrupted write leaves it*)
(*        "garbled"   bytes of two overlapping writes                      *)
(*        "notjson"   any other text that is not JSON                      *)
(*        "notobject" JSON whose top-level value is not an object          *)
(*        "nokey"     a JSON object without the key "uploads"              *)
(*        "object"    a JSON object whose "uploads" is the list `uploads`  *)
(***************************************************************************)
FileOf(kind, uploads) == [kind |-> kind, uploads |-> uploads]

NotJsonKinds == {"empty", "partial", "garbled", "notjson"}

\* json.load of the file: the exception, or "ok"
json_load_error(f) == IF f.kind \in NotJsonKinds THEN "JSONDecodeError" ELSE "ok"

RECURSIVE FirstError(_, _)
\* the exception of the first entry of uploads, from index i on, that
\* from_dict rejects, or "ok": the list comprehension stops there
FirstError(uploads, i) ==
  IF i > Len(uploads) THEN "ok"
  ELSE IF from_dict_error(uploads[i]) # "ok" THEN from_dict_error(uploads[i])
  ELSE FirstError(uploads, i + 1)

\* the exception raised inside the try block of _load, or "ok"
LoadTryError(f) ==
  IF json_load_error(f) # "ok" THEN json_load_error(f)
  ELSE IF f.kind = "notobject" THEN "AttributeError"
  ELSE IF f.kind = "nokey" THEN "ok"
  ELSE FirstError(f.uploads, 1)

\* the exceptions the except clause of _load catches
LoadCaught == {"JSONDecodeError", "KeyError", "TypeError"}

\* HistoryManager._load: the exception that leaves it ("none" when it returns)
\* and the records it sets
_load(f) ==
  IF f.kind = "missing" THEN [raised |-> "none", records |-> <<>>]
  ELSE LET e == LoadTryError(f) IN
       IF e = "ok"
       THEN [raised |-> "none",
             records |-> IF f.kind = "nokey" THEN <<>>
                         ELSE [i \in 1..Len(f.uploads) |-> from_dict(f.uploads[i])]]
       ELSE IF e \in LoadCaught THEN [raised |-> "none", records |-> <<>>]
       ELSE [raised |-> e, records |-> <<>>]

\* HistoryManager._save: what a completed json.dump leaves in the file
_save(records) ==
  FileOf("object", [i \in 1..Len(records) |-> to_dict(records[i])])

(***************************************************************************)
(* history.py: the queries                                                 *)
(***************************************************************************)
\* is_duplicate that compares the hash alone
is_duplicate_by_hash(records, image_hash, obs_id) ==
  \E i \in 1..Len(records) : records[i].image_hash = image_hash

\* HistoryManager.is_duplicate
is_duplicate(records, image_hash, obs_id) ==
  \E i \in 1..Len(records) :
     records[i].image_hash = image_hash /\ records[i].observation_id = obs_id

RECURSIVE FirstMatch(_, _, _, _)
\* the loop of get_duplicate_record from index i on
FirstMatch(records, image_hash, obs_id, i) ==
  IF i > Len(records) THEN None
  ELSE IF records[i].image_hash = image_hash /\ records[i].observation_id = obs_id
       THEN Some(records[i])
  ELSE FirstMatch(records, image_hash, obs_id, i + 1)

RECURSIVE LastMatch(_, _, _, _)
\* the same loop run from the end of the list
LastMatch(records, image_hash, obs_id, i) ==
  IF i < 1 THEN None
  ELSE IF records[i].image_hash = image_hash /\ records[i].observation_id = obs_id
       THEN Some(records[i])
  ELSE LastMatch(records, image_hash, obs_id, i - 1)

\* get_duplicate_record that returns the latest match
get_duplicate_record_latest(records, image_hash, obs_id) ==
  LastMatch(records, image_hash, obs_id, Len(records))

\* HistoryManager.get_duplicate_record
get_duplicate_record(records, image_hash, obs_id) ==
  FirstMatch(records, image_hash, obs_id, 1)

\* add_record that inserts at the front
add_record_at_front(records, record) == <<record>> \o records

\* HistoryManager.add_record, its in-memory part
add_record(records, record) == Append(records, record)

\* HistoryManager.create_record, the record it builds
create_record(image_hash, observation_id, filename, now, caption, inat_photo_id) ==
  UploadRecord(image_hash, observation_id, filename, now, caption, inat_photo_id)

RECURSIVE Insert(_, _, _)
\* a stable sort, one step: the pair <<key, value>> goes behind every pair that
\* is already placed and is not after it in the order
Insert(placed, pair, reverse) ==
  IF placed = <<>> THEN <<pair>>
  ELSE IF (IF reverse THEN placed[1][1] >= pair[1] ELSE placed[1][1] <= pair[1])
       THEN <<placed[1]>> \o Insert(Tail(placed), pair, reverse)
  ELSE <<pair>> \o placed

RECURSIVE SortPairs(_, _, _)
\* a stable sort of the first n pairs by their keys
SortPairs(pairs, n, reverse) ==
  IF n = 0 THEN <<>>
  ELSE Insert(SortPairs(pairs, n - 1, reverse), pairs[n], reverse)

\* sorted(xs, key=lambda r: r.timestamp, reverse=reverse): a new list; items
\* with equal keys keep their order
sorted_by_timestamp(xs, reverse) ==
  LET pairs == [i \in 1..Len(xs) |-> <<xs[i].timestamp, xs[i]>>]
      done == SortPairs(pairs, Len(pairs), reverse)
  IN [i \in 1..Len(done) |-> done[i][2]]

\* a range filter that leaves out the records at the bounds
InRangeExclusive(r, since, until) ==
  /\ since # None => r.timestamp > since[1]
  /\ until # None => r.timestamp < until[1]

\* get_unique_observations, its two filters: `if since:` and `if until:` hold
\* for every datetime, so each filter is applied exactly when its bound is given
InRange(r, since, until) ==
  /\ since # None => r.timestamp >= since[1]
  /\ until # None => r.timestamp <= until[1]

\* a group of the mapping: its key and its list
Group(obs_id, records) == [obs_id |-> obs_id, records |-> records]

RECURSIVE GroupFrom(_, _, _)
\* get_unique_observations, its grouping loop from the i-th record on: a new
\* key goes to the end of the dict, a record to the end of its key's list
GroupFrom(filtered, i, groups) ==
  IF i > Len(filtered) THEN groups
  ELSE LET record == filtered[i]
           at == {k \in 1..Len(groups) : groups[k].obs_id = record.observation_id}
       IN IF at = {}
          THEN GroupFrom(filtered, i + 1,
                         Append(groups, Group(record.observation_id, <<record>>)))
          ELSE LET k == CHOOSE k \in at : TRUE IN
               GroupFrom(filtered, i + 1,
                         [groups EXCEPT ![k].records = Append(@, record)])

\* a last step that orders the groups by their keys
SortGroupsByKey(groups) ==
  LET pairs == [k \in 1..Len(groups) |-> <<groups[k].obs_id, groups[k]>>]
      done == SortPairs(pairs, Len(pairs), FALSE)
  IN [k \in 1..Len(done) |-> done[k][2]]

\* get_unique_observations, its last step:
\* dict(sorted(groups.items(), key=lambda x: x[1][0].timestamp))
SortGroups(groups) ==
  LET pairs == [k \in 1..Len(groups) |->
                  <<groups[k].records[1].timestamp, groups[k]>>]
      done == SortPairs(pairs, Len(pairs), FALSE)
  IN [k \in 1..Len(done) |-> done[k][2]]

\* HistoryManager.get_unique_observations: the dict it returns, as the list of
\* its items in iteration order
get_unique_observations(records, since, until) ==
  LET keep(r) == InRange(r, since, until)
      filtered == SelectSeq(records, keep)
      groups == GroupFrom(filtered, 1, <<>>)
      each == [k \in 1..Len(groups) |->
                 Group(groups[k].obs_id,
                       sorted_by_timestamp(groups[k].records, FALSE))]
  IN SortGroups(each)

\* a get_history that returns the oldest record first
get_history_oldest_first(records) ==
  [result |-> sorted_by_timestamp(records, FALSE), records |-> records]

\* HistoryManager.get_history: the list it returns, and _records after the call
get_history(records) ==
  [result |-> sorted_by_timestamp(records, TRUE), records |-> records]

(***************************************************************************)
(* cli.py: the manifest                                                    *)
(***************************************************************************)
ManifestItem(scan, dup) ==
  [filename |-> scan.filename, image_hash |-> scan.image_hash,
   observation_id |-> scan.observation_id, is_duplicate |-> dup]

\* a manifest assembly that tags every item as new
BuildManifestAllNew(records, scans) ==
  [k \in 1..Len(scans) |-> ManifestItem(scans[k], FALSE)]

\* run, manifest assembly: one item per successful scan, tagged by the ledger
BuildManifest(records, scans) ==
  [k \in 1..Len(scans) |->
     ManifestItem(scans[k],
                  is_duplicate(records, scans[k].image_hash,
                               scans[k].observation_id))]

IsDup(m) == m.is_duplicate
NotDup(m) == ~m.is_duplicate

\* run, duplicate handling: the manifest that goes on to the upload loop
FilterDuplicates(manifest, skip_duplicates, confirm_duplicates) ==
  LET duplicates == SelectSeq(manifest, IsDup) IN
  IF duplicates # <<>> /\ ~skip_duplicates
  THEN IF ~confirm_duplicates THEN SelectSeq(manifest, NotDup) ELSE manifest
  ELSE IF skip_duplicates /\ duplicates # <<>>
       THEN SelectSeq(manifest, NotDup)
  ELSE manifest

Captions == {None, Some("voucher")}

(***************************************************************************)
(* scanner.py: the identifier pattern                                      *)
(***************************************************************************)
\* a text is a sequence of tokens: the pieces INAT_URL_PATTERN tells apart
\* (scheme, "www.", host, path prefix, single digits) and anything else
Digit == [t \in {"0", "1", "2", "3", "4", "5", "6", "7", "8", "9"} |->
            CASE t = "0" -> 0 [] t = "1" -> 1 [] t = "2" -> 2 [] t = "3" -> 3
              [] t = "4" -> 4 [] t = "5" -> 5 [] t = "6" -> 6 [] t = "7" -> 7
              [] t = "8" -> 8 [] t = "9" -> 9]

\* re.IGNORECASE: the token in lower case
Lower(t) ==
  CASE t = "HTTP://" -> "http://"
    [] t = "HTTPS://" -> "https://"
    [] t = "WWW." -> "www."
    [] t = "iNaturalist.org" -> "inaturalist.org"
    [] t = "/Observations/" -> "/observations/"
    [] OTHER -> t

\* a token that stands for a run of the digit 9, and the length of the run
RunLength == [t \in {"9{20}", "9{4301}"} |-> IF t = "9{20}" THEN 20 ELSE 4301]

\* \d: the token is made of decimal digits
IsDigits(t) == t \in DOMAIN Digit \/ t \in DOMAIN RunLength

RECURSIVE DigitsEnd(_, _)
\* \d+ is greedy: the index after the run of digits that starts at i
DigitsEnd(text, i) ==
  IF i <= Len(text) /\ IsDigits(text[i])
  THEN DigitsEnd(text, i + 1) ELSE i

RECURSIVE DigitCount(_, _, _)
\* the number of digit characters in text[i..j-1]
DigitCount(text, i, j) ==
  IF j <= i THEN 0
  ELSE DigitCount(text, i, j - 1) +
       (IF text[j - 1] \in DOMAIN RunLength THEN RunLength[text[j - 1]] ELSE 1)

RECURSIVE IntValue(_, _, _)
\* the value of the single digits text[i..j-1]
IntValue(text, i, j) ==
  IF j <= i THEN 0 ELSE IntValue(text, i, j - 1) * 10 + Digit[text[j - 1]]

\* an exception on its way out of a call: its type and its message
Raise(type, msg) == <<"raise", type, msg>>

IsRaise(v) == Len(v) = 3

\* a Python int too long to be written out here: Python ints have no upper
\* limit, so the value is all of its digits
BigInt(digits) == <<"int", digits>>

\* int(match.group(1)) of the digits text[i..j-1]: CPython refuses a string of
\* more than 4300 digit characters with ValueError, and converts any other,
\* however long
int(text, i, j) ==
  IF DigitCount(text, i, j) > 4300
  THEN Raise("ValueError",
             "Exceeds the limit (4300 digits) for integer string conversion")
  ELSE IF DigitCount(text, i, j) > 9
       THEN Some(BigInt(SubSeq(text, i, j - 1)))
  ELSE Some(IntValue(text, i, j))

\* INAT_URL_PATTERN matched at position i: the span of group 1, or None
MatchAt(text, i) ==
  LET tok(k) == IF k <= Len(text) THEN Lower(text[k]) ELSE ""
      host == IF tok(i + 1) = "www." THEN i + 2 ELSE i + 1
      first == host + 2
      end == DigitsEnd(text, first)
  IN IF /\ tok(i) \in {"http://", "https://"}
        /\ tok(host) = "inaturalist.org"
        /\ tok(host + 1) = "/observations/"
        /\ end > first
     THEN Some(<<first, end>>) ELSE None

\* extract_observation_id: INAT_URL_PATTERN.search takes the leftmost match;
\* the result is None, Some(identifier), or the exception int raises
extract_observation_id(url) ==
  LET hits == {i \in 1..Len(url) : MatchAt(url, i) # None} IN
  IF hits = {} THEN None
  ELSE LET i == CHOOSE h \in hits : \A g \in hits : h <= g
           span == MatchAt(url, i)[1]
       IN int(url, span[1], span[2])

(***************************************************************************)
(* scanner.py: decoding one raster                                         *)
(***************************************************************************)
\* a symbol pyzbar.decode returns: its type and its data, bytes that are
\* UTF-8 for a text or are not UTF-8
Symbol(type, utf8, text) == [type |-> type, utf8 |-> utf8, text |-> text]

InatUrl == <<"https://", "www.", "inaturalist.org", "/observations/", "1", "2">>
OtherInatUrl == <<"HTTP://", "iNaturalist.org", "/observations/", "7", "?">>
ForeignUrl == <<"https://", "example.com", "/observations/", "5">>

\* the symbol lists the decoder may return for a raster, besides the empty one
SymbolLists ==
  { <<Symbol("QRCODE", TRUE, InatUrl)>>,
    <<Symbol("QRCODE", TRUE, ForeignUrl)>>,
    <<Symbol("EAN13", TRUE, InatUrl), Symbol("QRCODE", FALSE, <<>>),
      Symbol("QRCODE", TRUE, ForeignUrl), Symbol("QRCODE", TRUE, OtherInatUrl)>> }

RECURSIVE TryDecodeFrom(_, _)
\* _try_decode_qr, the loop over the decoded symbols from the i-th on
TryDecodeFrom(decoded, i) ==
  IF i > Len(decoded) THEN None
  ELSE LET obj == decoded[i] IN
       IF obj.type = "QRCODE"
       THEN IF ~obj.utf8 THEN TryDecodeFrom(decoded, i + 1)
            ELSE LET obs_id == extract_observation_id(obj.text) IN
                 \* an identifier is returned; only UnicodeDecodeError is
                 \* caught, so an exception of extract_observation_id leaves
                 \* the loop as well
                 IF obs_id # None THEN obs_id
                 ELSE TryDecodeFrom(decoded, i + 1)
       ELSE TryDecodeFrom(decoded, i + 1)

\* _try_decode_qr, given what pyzbar.decode returned for the raster
_try_decode_qr(decoded) == TryDecodeFrom(decoded, 1)

(***************************************************************************)
(* scanner.py: the variant generator                                       *)
(***************************************************************************)
Max(a, b) == IF a >= b THEN a ELSE b

\* a generator with a fifth target level
TargetDimsFive == <<4096, 2048, 1500, 1024, 800>>

\* the target levels of _generate_image_variants, in its order
TargetDims == <<2048, 1500, 1024, 800>>

\* a raster: its size, the target it was resized to (0: not resized) and the
\* filters applied to it, in order
Raster(w, h, max_dim, filters) ==
  [w |-> w, h |-> h, max_dim |-> max_dim, filters |-> filters]

\* img.resize((int(w * ratio), int(h * ratio))) with ratio = max_dim / max(w, h):
\* the float product is the exact quotient for every size of ImageSizes, and
\* for no size does int() give more than the quotient's floor
resize(img, max_dim) ==
  Raster((img.w * max_dim) \div Max(img.w, img.h),
         (img.h * max_dim) \div Max(img.w, img.h), max_dim, img.filters)

\* img.filter(ImageFilter.SHARPEN), ImageEnhance.Contrast(img).enhance(1.5)
filter(img, name) == [img EXCEPT !.filters = Append(@, name)]

Variant(image, method) == [image |-> image, method |-> method]

\* a generator that sharpens the resized raster and enhances the sharpened one
LevelVariantsChained(img, max_dim) ==
  IF Max(img.w, img.h) <= max_dim
  THEN << Variant(img, <<"original", max_dim>>) >>
  ELSE LET resized == resize(img, max_dim)
           sharp == filter(resized, "SHARPEN")
       IN << Variant(resized, <<"resize", max_dim>>),
             Variant(sharp, <<"resize", max_dim, "sharpen">>),
             Variant(filter(sharp, "Contrast"), <<"resize", max_dim, "contrast">>) >>

\* _generate_image_variants, one pass of its loop: what it yields for max_dim
LevelVariants(img, max_dim) ==
  IF Max(img.w, img.h) <= max_dim
  THEN << Variant(img, <<"original", max_dim>>) >>
  ELSE LET resized == resize(img, max_dim) IN
       << Variant(resized, <<"resize", max_dim>>),
          Variant(filter(resized, "SHARPEN"), <<"resize", max_dim, "sharpen">>),
          Variant(filter(resized, "Contrast"), <<"resize", max_dim, "contrast">>) >>

RECURSIVE VariantsFrom(_, _)
\* _generate_image_variants, its loop from the i-th target level on
VariantsFrom(img, i) ==
  IF i > Len(TargetDims) THEN <<>>
  ELSE LevelVariants(img, TargetDims[i]) \o VariantsFrom(img, i + 1)

\* _generate_image_variants: everything it yields, in order
_generate_image_variants(img) == VariantsFrom(img, 1)

(***************************************************************************)
(* scanner.py: scan_image                                                  *)
(***************************************************************************)
\* the ScanResult dataclass
ScanResult(image_path, observation_id, error) ==
  [image_path |-> image_path, observation_id |-> observation_id,
   error |-> error]

\* ScanResult.success
success(r) == r.observation_id # None /\ r.error = None

\* an image file as scan_image meets it: what Image.open and the first load do
\* (status), the size after exif_transpose, and what pyzbar.decode returns for
\* each raster made from it (symbols; a raster not in its domain has no symbol)
ImageFile(path, status, w, h, symbols) ==
  [path |-> path, status |-> status, w |-> w, h |-> h, symbols |-> symbols]

\* the image after Image.open, exif_transpose and convert("RGB")
Original(f) == Raster(f.w, f.h, 0, <<>>)

\* pyzbar.decode(img): the same raster always decodes to the same symbols
decode(f, img) ==
  LET key == <<img.max_dim, img.filters>> IN
  IF key \in DOMAIN f.symbols THEN f.symbols[key] ELSE <<>>

\* a decode loop that leaves the original to the generator
CandidatesOfGenerator(f) == _generate_image_variants(Original(f))

\* scan_image: the rasters it would decode, in order: the original, then the
\* variants
Candidates(f) ==
  <<Variant(Original(f), <<"original">>)>> \o
  _generate_image_variants(Original(f))

RECURSIVE DecodeLoopToEnd(_, _, _)
\* a decode loop that goes on after a success and keeps the last identifier
DecodeLoopToEnd(f, cands, i) ==
  IF i > Len(cands) THEN [obs_id |-> None, tried |-> i - 1]
  ELSE LET obs_id == _try_decode_qr(decode(f, cands[i].image))
           rest == DecodeLoopToEnd(f, cands, i + 1)
       IN IF rest.obs_id # None \/ obs_id = None THEN rest
          ELSE [obs_id |-> obs_id, tried |-> rest.tried]

RECURSIVE DecodeLoop(_, _, _)
\* scan_image, its decode attempts from the i-th candidate on: the identifier
\* found, if any, or the exception that ended the attempts, and the number of
\* candidates decoded
DecodeLoop(f, cands, i) ==
  IF i > Len(cands) THEN [obs_id |-> None, tried |-> i - 1]
  ELSE LET obs_id == _try_decode_qr(decode(f, cands[i].image)) IN
       IF obs_id # None THEN [obs_id |-> obs_id, tried |-> i]
       ELSE DecodeLoop(f, cands, i + 1)

\* a NotFound that also carries an identifier
NotFoundWithId(image_path, error) == ScanResult(image_path, Some(0), Some(error))

\* ScanResult(image_path=..., error=...)
NotFound(image_path, error) == ScanResult(image_path, None, Some(error))

\* ScanResult(image_path=..., observation_id=...)
Found(image_path, obs_id) == ScanResult(image_path, obs_id, None)

\* a last return that tells a foreign symbol from no symbol
NoIdentifierDistinct(f, tried) ==
  IF \E k \in 1..tried : decode(f, Candidates(f)[k].image) # <<>>
  THEN NotFound(f.path, <<"Recognized but foreign QR">>)
  ELSE NotFound(f.path, <<"No QR code detected">>)

\* scan_image, its last return: no candidate gave an identifier
NoIdentifier(f, tried) == NotFound(f.path, <<"No QR code detected">>)

\* the exception the body of the try statement raises, if any
BodyRaises(f) ==
  CASE f.status = "missing" -> Some(<<"FileNotFoundError", "No such file">>)
    [] f.status = "unreadable" ->
         Some(<<"UnidentifiedImageError", "cannot identify image file">>)
    [] f.status = "truncated" -> Some(<<"OSError", "image file is truncated">>)
    [] OTHER -> None

\* scan_image, the ScanResult it returns once the decode attempts have ended:
\* with an exception (caught by except Exception), an identifier, or neither
ResultOf(f, obs_id, tried) ==
  IF IsRaise(obs_id)
  THEN NotFound(f.path, <<"Error scanning image: ", obs_id[3]>>)
  ELSE IF obs_id # None THEN Found(f.path, obs_id)
  ELSE NoIdentifier(f, tried)

\* a scan_image without its except Exception clause
scan_image_unguarded(f) ==
  LET exc == BodyRaises(f) IN
  IF exc = None
  THEN LET r == DecodeLoop(f, Candidates(f), 1) IN
       [raised |-> IF IsRaise(r.obs_id) THEN Some(<<r.obs_id[2], r.obs_id[3]>>)
                   ELSE None,
        result |-> IF r.obs_id # None THEN Found(f.path, r.obs_id)
                   ELSE NoIdentifier(f, r.tried),
        decoded |-> SubSeq(Candidates(f), 1, r.tried)]
  ELSE IF exc[1][1] = "FileNotFoundError"
       THEN [raised |-> None,
             result |-> NotFound(f.path, <<"File not found: ", f.path>>),
             decoded |-> <<>>]
  ELSE [raised |-> exc, result |-> NotFound(f.path, <<>>), decoded |-> <<>>]

\* scan_image: the exception that leaves it (none does), the ScanResult it
\* returns, and the candidates it has decoded
scan_image(f) ==
  LET exc == BodyRaises(f) IN
  IF exc = None
  THEN LET r == DecodeLoop(f, Candidates(f), 1) IN
       [raised |-> None,
        result |-> ResultOf(f, r.obs_id, r.tried),
        decoded |-> SubSeq(Candidates(f), 1, r.tried)]
  ELSE IF exc[1][1] = "FileNotFoundError"
       THEN [raised |-> None,
             result |-> NotFound(f.path, <<"File not found: ", f.path>>),
             decoded |-> <<>>]
  ELSE [raised |-> None,
        result |-> NotFound(f.path, <<"Error scanning image: ", exc[1][2]>>),
        decoded |-> <<>>]

(***************************************************************************)
(* The image files a scan may be given                                     *)
(***************************************************************************)
\* image sizes with 0, 0, 1, 2, 3 and 4 target levels below the longer side
ImageSizes ==
  { <<640, 480>>, <<800, 600>>, <<1000, 800>>, <<1200, 1600>>, <<2000, 1500>>,
    <<4000, 3000>> }

\* what identifies a raster of an image to the decoder: target and filters
RasterKeys ==
  {<<0, <<>>>>} \cup
  {<<TargetDims[k], fs>> :
     k \in 1..Len(TargetDims), fs \in {<<>>, <<"SHARPEN">>, <<"Contrast">>}}

\* the decoders: a symbol list for each of at most MaxMarks rasters
Decoders ==
  UNION {[K -> SymbolLists] :
           K \in {S \in SUBSET RasterKeys : Cardinality(S) <= MaxMarks}}

\* the readable images scan_image is checked on alone
ReadableImages ==
  {ImageFile("img.jpg", "ok", sz[1], sz[2], d) : sz \in ImageSizes, d \in Decoders}

\* the files a batch is drawn from: two missing, one that is no image, one cut
\* short, one without a code, one whose code shows after resize and contrast
Folder ==
  { ImageFile("gone.jpg", "missing", 0, 0, <<>>),
    ImageFile("lost.jpg", "missing", 0, 0, <<>>),
    ImageFile("notes.txt", "unreadable", 0, 0, <<>>),
    ImageFile("cut.jpg", "truncated", 0, 0, <<>>),
    ImageFile("plain.jpg", "ok", 640, 480, <<>>),
    ImageFile("voucher.jpg", "ok", 4000, 3000,
              [K \in {<<2048, <<"Contrast">>>>} |-> <<Symbol("QRCODE", TRUE, InatUrl)>>]) }

RECURSIVE Batches(_)
\* the lists of at most n files of Folder
Batches(n) ==
  IF n = 0 THEN {<<>>}
  ELSE {<<>>} \cup {<<f>> \o b : f \in Folder, b \in Batches(n - 1)}

\* the inputs of scan_batch: one image of any kind, or a list from Folder
ScanBatches == {<<f>> : f \in ReadableImages} \cup Batches(MaxBatch)

(***************************************************************************)
(* images.py: compute_hash                                                 *)
(***************************************************************************)
\* the bytes of a file: runs of equal bytes, no run empty, no two neighbours
\* of the same byte
Run(byte, count) == [byte |-> byte, count |-> count]

\* the size of f.read(8192)
ChunkSize == 8192

RECURSIVE Take(_, _)
\* the first n bytes, or all if there are fewer
Take(bytes, n) ==
  IF n = 0 \/ bytes = <<>> THEN <<>>
  ELSE IF bytes[1].count <= n
       THEN <<bytes[1]>> \o Take(Tail(bytes), n - bytes[1].count)
  ELSE <<Run(bytes[1].byte, n)>>

RECURSIVE Drop(_, _)
\* the bytes after the first n
Drop(bytes, n) ==
  IF n = 0 \/ bytes = <<>> THEN bytes
  ELSE IF bytes[1].count <= n THEN Drop(Tail(bytes), n - bytes[1].count)
  ELSE <<Run(bytes[1].byte, bytes[1].count - n)>> \o Tail(bytes)

\* sha256.update(chunk): the bytes fed so far, followed by the chunk
update(fed, chunk) ==
  IF fed = <<>> THEN chunk
  ELSE IF chunk = <<>> THEN fed
  ELSE IF fed[Len(fed)].byte = chunk[1].byte
       THEN SubSeq(fed, 1, Len(fed) - 1) \o
            <<Run(chunk[1].byte, fed[Len(fed)].count + chunk[1].count)>> \o
            Tail(chunk)
  ELSE fed \o chunk

\* sha256.hexdigest(): the digest of the bytes fed, taken as free of collisions
hexdigest(fed) == <<"sha256", fed>>

RECURSIVE ReadLoop(_, _)
\* compute_hash, its loop: f.read(8192) until it returns b"", each chunk fed
\* to the hash; rest is what the file still holds
ReadLoop(rest, fed) ==
  LET chunk == Take(rest, ChunkSize) IN
  IF chunk = <<>> THEN fed
  ELSE ReadLoop(Drop(rest, ChunkSize), update(fed, chunk))

\* a file as compute_hash meets it: status "ok", or what open or read raises
HashedFile(path, status, bytes) ==
  [path |-> path, status |-> status, bytes |-> bytes]

\* a compute_hash that answers with an empty digest for a file it cannot read
compute_hash_or_placeholder(f) ==
  IF f.status = "ok" THEN Some(hexdigest(ReadLoop(f.bytes, <<>>)))
  ELSE Some(hexdigest(<<>>))

\* compute_hash: the digest, or the exception of open or read, which nothing
\* in compute_hash catches
compute_hash(f) ==
  CASE f.status = "ok" -> Some(hexdigest(ReadLoop(f.bytes, <<>>)))
    [] f.status = "missing" -> Raise("FileNotFoundError", "No such file or directory")
    [] f.status = "denied" -> Raise("PermissionError", "Permission denied")
    [] OTHER -> Raise("OSError", "Input/output error")

(***************************************************************************)
(* The arguments a function is called with on its own                      *)
(***************************************************************************)
\* a call: the function's name and its argument
Call(fn, arg) == [fn |-> fn, arg |-> arg]

\* texts with one more digit than a 64-bit integer has, and with one more
\* than int converts
BigUrl == <<"https://", "inaturalist.org", "/observations/", "9{20}">>
OverlongUrl == <<"https://", "www.", "inaturalist.org", "/observations/", "9{4301}">>

\* the symbols a decoder may return: codes with a matching text, with a
\* foreign text, with bytes that are not UTF-8, a bar code, and codes whose
\* text matches with very many digits
Symbols ==
  { Symbol("QRCODE", TRUE, InatUrl), Symbol("QRCODE", TRUE, OtherInatUrl),
    Symbol("QRCODE", TRUE, ForeignUrl), Symbol("QRCODE", FALSE, <<>>),
    Symbol("EAN13", TRUE, InatUrl), Symbol("QRCODE", TRUE, BigUrl),
    Symbol("QRCODE", TRUE, OverlongUrl) }

RECURSIVE SymbolSeqs(_)
\* the lists of at most n symbols
SymbolSeqs(n) ==
  IF n = 0 THEN {<<>>}
  ELSE {<<>>} \cup {<<y>> \o r : y \in Symbols, r \in SymbolSeqs(n - 1)}

\* the calls of _try_decode_qr, by what pyzbar.decode returned
TryDecodeCalls == {Call("_try_decode_qr", d) : d \in SymbolSeqs(MaxSymbols)}

\* the timestamps of the records of a queried ledger
Timestamps == 1..3

\* the file names of the records of a queried ledger, by position
RecordNames == <<"r1.jpg", "r2.jpg", "r3.jpg", "r4.jpg", "r5.jpg">>

RECURSIVE KeySeqs(_)
\* the lists of at most n pairs of an observation id and a timestamp
KeySeqs(n) ==
  IF n = 0 THEN {<<>>}
  ELSE {<<>>} \cup
       {<<<<t, ts>>>> \o r : t \in ObsIds, ts \in Timestamps, r \in KeySeqs(n - 1)}

\* the ledgers a query is called on: in any order of timestamps, since the
\* clock may be set back between two runs
Ledgers ==
  {[k \in 1..Len(ks) |->
      UploadRecord("d1", ks[k][1], RecordNames[k], ks[k][2], None, None)] :
     ks \in KeySeqs(MaxLedger)}

\* the calls of get_history
GetHistoryCalls == {Call("get_history", l) : l \in Ledgers}

\* the values of since and until: not given, or a timestamp
RangeBounds == {None} \cup {Some(ts) : ts \in Timestamps}

\* the calls of get_unique_observations
GetUniqueCalls ==
  {Call("get_unique_observations", [records |-> l, since |-> a, until |-> b]) :
     l \in Ledgers, a \in RangeBounds, b \in RangeBounds}

RECURSIVE DigitSeqs(_)
\* the lists of at most n digit tokens
DigitSeqs(n) ==
  IF n = 0 THEN {<<>>}
  ELSE {<<>>} \cup
       {<<d>> \o r : d \in {"0", "1", "7", "9{20}", "9{4301}"},
                     r \in DigitSeqs(n - 1)}

\* the texts extract_observation_id is called with: something in front or
\* not, a scheme, "www." or not, a host, a path, digits or none, something
\* behind or not
Texts ==
  {front \o <<scheme>> \o www \o <<host, path>> \o digits \o back :
     front \in {<<>>, <<"x">>,
                <<"http://", "inaturalist.org", "/observations/", "5", " ">>},
     scheme \in {"http://", "https://", "HTTPS://", "ftp://"},
     www \in {<<>>, <<"www.">>, <<"WWW.">>},
     host \in {"inaturalist.org", "iNaturalist.org", "example.com"},
     path \in {"/observations/", "/Observations/", "/taxa/"},
     digits \in DigitSeqs(MaxDigits),
     back \in {<<>>, <<"x">>}}

\* the calls of extract_observation_id
ExtractCalls == {Call("extract_observation_id", t) : t \in Texts}

\* run lengths around the chunk size and its double
RunCounts == {1, ChunkSize - 1, ChunkSize, ChunkSize + 1, 2 * ChunkSize}

RECURSIVE FileBytes(_, _)
\* the contents of at most n runs that do not start with the byte last
FileBytes(n, last) ==
  IF n = 0 THEN {<<>>}
  ELSE {<<>>} \cup
       UNION {{<<Run(b, k)>> \o r : k \in RunCounts, r \in FileBytes(n - 1, b)} :
                b \in {"00", "ff"} \ {last}}

\* the calls of compute_hash: two paths, readable or not
ComputeHashCalls ==
  {Call("compute_hash", HashedFile(path, status, bytes)) :
     path \in {"a.jpg", "b.jpg"},
     status \in {"ok", "missing", "denied", "ioerror"},
     bytes \in FileBytes(MaxRuns, "")}

\* the calls of the specification of single calls
FunctionCalls ==
  TryDecodeCalls \cup GetHistoryCalls \cup GetUniqueCalls \cup ExtractCalls
    \cup ComputeHashCalls

(***************************************************************************)
(* State                                                                   *)
(***************************************************************************)
VARIABLES
  file,        \* the history file (history.json)
  token,       \* whether the cached token file exists
  clock,       \* the wall clock datetime.now() reads
  pc,          \* each process's position in run
  records,     \* each HistoryManager's _records
  manifest,    \* each run's manifest, after duplicate handling
  caption,     \* each run's caption
  idx,         \* each run's position in the upload loop
  successful,  \* each run's count of items done
  failed,      \* each run's count of items that raised
  loaded,      \* history: the records each HistoryManager loaded
  sent,        \* history: the items whose upload_photo returned, in order
  lastCall,    \* history: each process's latest create_record call
  hashFailed,  \* history: the scans and the index where compute_hash raised
  batch,       \* the image files scan_batch is given, in order
  results,     \* the list scan_batch has built so far
  attempts,    \* history: the candidates each scan_image has decoded
  escaped,     \* the exception that left scan_batch, if any
  call,        \* a call of one function on its own: the function, its argument
  ret          \* what that call returned or raised, once it has ended

ledgerVars == <<file, token, clock, pc, records, manifest, caption, idx,
                successful, failed, loaded, sent, lastCall>>

scanVars == <<batch, results, attempts, escaped>>

callVars == <<call, ret>>

vars == <<ledgerVars, hashFailed, scanVars, callVars>>

\* lastCall: outcome "none" | "running" | "returned" | "raised"; args, the
\* arguments of the call; record, the record it built; prior, _records when it
\* was entered; fileBefore, the records the file held when it was entered
NoCall ==
  [outcome |-> "none", args |-> None, record |-> None, prior |-> <<>>,
   fileBefore |-> <<>>]

\* records a history file may hold before the first run
OldRecord == UploadRecord("d1", 1, "old.jpg", 0, None, None)

\* the contents the history file may have before the first run
InitFiles ==
  { FileOf("missing", <<>>),
    FileOf("notjson", <<>>),
    FileOf("notobject", <<>>),
    FileOf("nokey", <<>>),
    FileOf("object", <<>>),
    FileOf("object", <<to_dict(OldRecord)>>),
    \* written by a version without the optional keys
    FileOf("object", <<[image_hash |-> "d1", observation_id |-> 1,
                        filename |-> "old.jpg", timestamp |-> isoformat(0)]>>),
    \* a record missing a required field, after a good one
    FileOf("object", <<to_dict(OldRecord),
                       [image_hash |-> "d2", observation_id |-> 2,
                        timestamp |-> isoformat(0)]>>),
    \* a record whose timestamp does not parse
    FileOf("object", <<[image_hash |-> "d1", observation_id |-> 1,
                        filename |-> "old.jpg", timestamp |-> BadIsoText]>>),
    \* a record whose timestamp is a number
    FileOf("object", <<[image_hash |-> "d1", observation_id |-> 1,
                        filename |-> "old.jpg", timestamp |-> NumberJson]>>) }

\* the contents the history file may have before two concurrent runs
SharedInitFiles ==
  { FileOf("missing", <<>>), FileOf("object", <<to_dict(OldRecord)>>) }

\* the state before any run, over a history file drawn from files
InitOver(files) ==
  /\ file \in files
  /\ token \in BOOLEAN
  /\ clock = 1
  /\ pc = [p \in Procs |-> "start"]
  /\ records = [p \in Procs |-> <<>>]
  /\ manifest = [p \in Procs |-> <<>>]
  /\ caption = [p \in Procs |-> None]
  /\ idx = [p \in Procs |-> 1]
  /\ successful = [p \in Procs |-> 0]
  /\ failed = [p \in Procs |-> 0]
  /\ loaded = [p \in Procs |-> <<>>]
  /\ sent = [p \in Procs |-> <<>>]
  /\ lastCall = [p \in Procs |-> NoCall]
  /\ hashFailed = [p \in Procs |-> None]

\* no scan_batch call
NoScan == batch = <<>> /\ results = <<>> /\ attempts = <<>> /\ escaped = None

\* no function called on its own
NoFunctionCall == call = [fn |-> "none", arg |-> None] /\ ret = None

Init == InitOver(SharedInitFiles) /\ NoScan /\ NoFunctionCall

InitSolo == InitOver(InitFiles) /\ NoScan /\ NoFunctionCall

(***************************************************************************)
(* Actions                                                                 *)
(***************************************************************************)
\* history = HistoryManager(): __init__ and _load
Construct(p) ==
  /\ pc[p] = "start"
  /\ LET r == _load(file) IN
     /\ pc' = [pc EXCEPT ![p] = IF r.raised = "none" THEN "ready" ELSE "crashed"]
     /\ records' = [records EXCEPT ![p] = r.records]
     /\ loaded' = [loaded EXCEPT ![p] = r.records]
  /\ UNCHANGED <<file, token, clock, manifest, caption, idx, successful, failed,
                 sent, lastCall>>
  /\ UNCHANGED <<hashFailed, scanVars, callVars>>

\* run, from the manifest to the start of the upload loop: assembly, duplicate
\* handling, the caption and upload prompts, get_authenticated_client
StartUpload(p, inputs) ==
  /\ pc[p] = "ready"
  /\ \E scans \in inputs, skip_duplicates \in BOOLEAN,
        confirm_duplicates \in BOOLEAN, confirm_upload \in BOOLEAN,
        cap \in Captions, auth_ok \in BOOLEAN :
       LET m == FilterDuplicates(BuildManifest(records[p], scans),
                                 skip_duplicates, confirm_duplicates)
           go == m # <<>> /\ confirm_upload /\ (token \/ auth_ok)
       IN /\ pc' = [pc EXCEPT ![p] = IF go THEN "upload" ELSE "exit"]
          /\ manifest' = [manifest EXCEPT ![p] = IF go THEN m ELSE <<>>]
          /\ caption' = [caption EXCEPT ![p] = IF go THEN cap ELSE None]
          /\ token' = IF m # <<>> /\ confirm_upload /\ auth_ok THEN TRUE ELSE token
  /\ UNCHANGED <<file, clock, records, idx, successful, failed, loaded, sent,
                 lastCall>>
  /\ UNCHANGED <<hashFailed, scanVars, callVars>>

\* run, manifest assembly: compute_hash raises on the k-th scanned image (the
\* file was removed or became unreadable after the scan); no handler, run ends
HashRaises(p, inputs) ==
  /\ pc[p] = "ready"
  /\ \E scans \in inputs :
       \E k \in 1..Len(scans) :
         /\ manifest' = [manifest EXCEPT ![p] =
                          BuildManifest(records[p], SubSeq(scans, 1, k - 1))]
         /\ hashFailed' = [hashFailed EXCEPT ![p] =
                            Some([scans |-> scans, at |-> k])]
  /\ pc' = [pc EXCEPT ![p] = "aborted"]
  /\ UNCHANGED <<file, token, clock, records, caption, idx, successful, failed,
                 loaded, sent, lastCall, scanVars, callVars>>

InLoop(p) == pc[p] = "upload" /\ idx[p] <= Len(manifest[p])

\* an upload loop that records the item although its upload raised
UploadFailRecorded(p) ==
  /\ InLoop(p)
  /\ LET item == manifest[p][idx[p]] IN
     records' = [records EXCEPT ![p] =
                   Append(@, UploadRecord(item.image_hash, item.observation_id,
                                          item.filename, clock, caption[p], None))]
  /\ failed' = [failed EXCEPT ![p] = @ + 1]
  /\ idx' = [idx EXCEPT ![p] = @ + 1]
  /\ UNCHANGED <<file, token, clock, pc, manifest, caption, successful, loaded,
                 sent, lastCall>>
  /\ UNCHANGED <<hashFailed, scanVars, callVars>>

\* upload loop: process_image or upload_photo raises; the except clause counts it
UploadFail(p) ==
  /\ InLoop(p)
  /\ failed' = [failed EXCEPT ![p] = @ + 1]
  /\ idx' = [idx EXCEPT ![p] = @ + 1]
  /\ UNCHANGED <<file, token, clock, pc, records, manifest, caption, successful,
                 loaded, sent, lastCall>>
  /\ UNCHANGED <<hashFailed, scanVars, callVars>>

\* upload loop: upload_photo returns a photo id; create_record builds the record
\* and add_record appends it, then enters _save
UploadOk(p) ==
  /\ InLoop(p)
  /\ \E now \in {clock, clock + 1} :
       LET item == manifest[p][idx[p]]
           photo_id == PhotoIdOf(p, idx[p])
           record == create_record(item.image_hash, item.observation_id,
                                   item.filename, now, caption[p],
                                   Some(photo_id))
       IN /\ clock' = now
          /\ records' = [records EXCEPT ![p] = add_record(@, record)]
          /\ sent' = [sent EXCEPT ![p] = Append(@, item)]
          /\ lastCall' = [lastCall EXCEPT ![p] =
                            [outcome |-> "running",
                             args |-> [image_hash |-> item.image_hash,
                                       observation_id |-> item.observation_id,
                                       filename |-> item.filename,
                                       caption |-> caption[p],
                                       inat_photo_id |-> Some(photo_id)],
                             record |-> Some(record),
                             prior |-> records[p],
                             fileBefore |-> _load(file).records]]
  /\ pc' = [pc EXCEPT ![p] = "save_open"]
  /\ UNCHANGED <<file, token, manifest, caption, idx, successful, failed, loaded>>
  /\ UNCHANGED <<hashFailed, scanVars, callVars>>

\* an add_record that swallows the exception of _save: the call returns
SaveRaisesSwallowed(p) ==
  /\ lastCall' = [lastCall EXCEPT ![p].outcome = "returned"]
  /\ successful' = [successful EXCEPT ![p] = @ + 1]
  /\ idx' = [idx EXCEPT ![p] = @ + 1]
  /\ pc' = [pc EXCEPT ![p] = "upload"]
  /\ UNCHANGED failed

\* the exception of _save leaves add_record and create_record and reaches the
\* except clause of the upload loop
SaveRaises(p) ==
  /\ lastCall' = [lastCall EXCEPT ![p].outcome = "raised"]
  /\ failed' = [failed EXCEPT ![p] = @ + 1]
  /\ idx' = [idx EXCEPT ![p] = @ + 1]
  /\ pc' = [pc EXCEPT ![p] = "upload"]
  /\ UNCHANGED successful

\* _save: mkdir or open(path, "w") raises; the file is as it was
SaveOpenFail(p) ==
  /\ pc[p] = "save_open"
  /\ SaveRaises(p)
  /\ UNCHANGED <<file, token, clock, records, manifest, caption, loaded, sent>>
  /\ UNCHANGED <<hashFailed, scanVars, callVars>>

\* _save: open(path, "w") truncates the file
SaveOpen(p) ==
  /\ pc[p] = "save_open"
  /\ file' = FileOf("empty", <<>>)
  /\ pc' = [pc EXCEPT ![p] = "save_write"]
  /\ UNCHANGED <<token, clock, records, manifest, caption, idx, successful,
                 failed, loaded, sent, lastCall>>
  /\ UNCHANGED <<hashFailed, scanVars, callVars>>

\* create_record returns to the upload loop
SaveReturns(p) ==
  /\ lastCall' = [lastCall EXCEPT ![p].outcome = "returned"]
  /\ successful' = [successful EXCEPT ![p] = @ + 1]
  /\ idx' = [idx EXCEPT ![p] = @ + 1]
  /\ pc' = [pc EXCEPT ![p] = "upload"]
  /\ UNCHANGED failed

\* _save: json.dump and close complete
SaveWrite(p) ==
  /\ pc[p] = "save_write"
  /\ file' = _save(records[p])
  /\ SaveReturns(p)
  /\ UNCHANGED <<token, clock, records, manifest, caption, loaded, sent>>
  /\ UNCHANGED <<hashFailed, scanVars, callVars>>

\* _save: json.dump and close complete, but another process has written since
\* this one opened the file: both wrote from offset 0, and the longer dump's
\* tail follows the shorter one
SaveWriteOverlap(p) ==
  /\ pc[p] = "save_write"
  /\ file.kind # "empty"
  /\ file' = FileOf("garbled", <<>>)
  /\ SaveReturns(p)
  /\ UNCHANGED <<token, clock, records, manifest, caption, loaded, sent>>
  /\ UNCHANGED <<hashFailed, scanVars, callVars>>

\* _save: json.dump or close raises part-way (disk full, I/O error)
SaveWriteFail(p) ==
  /\ pc[p] = "save_write"
  /\ file' = FileOf("partial", <<>>)
  /\ SaveRaises(p)
  /\ UNCHANGED <<token, clock, records, manifest, caption, loaded, sent>>
  /\ UNCHANGED <<hashFailed, scanVars, callVars>>

\* the upload loop ends; display_summary
Finish(p) ==
  /\ pc[p] = "upload"
  /\ idx[p] > Len(manifest[p])
  /\ pc' = [pc EXCEPT ![p] = "done"]
  /\ UNCHANGED <<file, token, clock, records, manifest, caption, idx, successful,
                 failed, loaded, sent, lastCall>>
  /\ UNCHANGED <<hashFailed, scanVars, callVars>>

\* vouchersnap logout: clear_token
Logout ==
  /\ token
  /\ token' = FALSE
  /\ UNCHANGED <<file, clock, pc, records, manifest, caption, idx, successful,
                 failed, loaded, sent, lastCall>>
  /\ UNCHANGED <<hashFailed, scanVars, callVars>>

\* a scan_batch that puts each result at the front of its list
ScanNextAtFront ==
  /\ escaped = None
  /\ Len(results) < Len(batch)
  /\ LET r == scan_image(batch[Len(results) + 1]) IN
     IF r.raised # None
     THEN escaped' = r.raised /\ UNCHANGED <<results, attempts>>
     ELSE /\ results' = <<r.result>> \o results
          /\ attempts' = <<r.decoded>> \o attempts
          /\ UNCHANGED escaped
  /\ UNCHANGED <<batch, ledgerVars, hashFailed, callVars>>

\* scan_batch, one pass of its list comprehension: scan_image on the next path
ScanNext ==
  /\ escaped = None
  /\ Len(results) < Len(batch)
  /\ LET r == scan_image(batch[Len(results) + 1]) IN
     IF r.raised # None
     THEN escaped' = r.raised /\ UNCHANGED <<results, attempts>>
     ELSE /\ results' = Append(results, r.result)
          /\ attempts' = Append(attempts, r.decoded)
          /\ UNCHANGED escaped
  /\ UNCHANGED <<batch, ledgerVars, hashFailed, callVars>>

Next ==
  \/ \E p \in Procs :
       \/ Construct(p)
       \/ StartUpload(p, ScanInputs(MaxSharedItems))
       \/ HashRaises(p, ScanInputs(MaxSharedItems))
       \/ UploadFail(p)
       \/ UploadOk(p)
       \/ SaveOpenFail(p)
       \/ SaveOpen(p)
       \/ SaveWrite(p)
       \/ SaveWriteOverlap(p)
       \/ SaveWriteFail(p)
       \/ Finish(p)
  \/ Logout

Spec == Init /\ [][Next]_vars

\* one process alone: no other writer of the history file
NextSolo ==
  \/ Construct(Solo)
  \/ StartUpload(Solo, ScanInputs(MaxItems))
  \/ HashRaises(Solo, ScanInputs(MaxItems))
  \/ UploadFail(Solo)
  \/ UploadOk(Solo)
  \/ SaveOpenFail(Solo)
  \/ SaveOpen(Solo)
  \/ SaveWrite(Solo)
  \/ SaveWriteFail(Solo)
  \/ Finish(Solo)
  \/ Logout

SpecSolo == InitSolo /\ [][NextSolo]_vars

\* scan_batch alone: no run, no history file
InitScan ==
  /\ InitOver({FileOf("missing", <<>>)})
  /\ ~token
  /\ batch \in ScanBatches
  /\ results = <<>>
  /\ attempts = <<>>
  /\ escaped = None
  /\ NoFunctionCall

NextScan == ScanNext

SpecScan == InitScan /\ [][NextScan]_vars

\* _try_decode_qr returns or raises
TryDecodeReturns ==
  /\ call.fn = "_try_decode_qr"
  /\ ret = None
  /\ ret' = Some(_try_decode_qr(call.arg))
  /\ UNCHANGED <<ledgerVars, hashFailed, scanVars, call>>

\* get_history returns
GetHistoryReturns ==
  /\ call.fn = "get_history"
  /\ ret = None
  /\ ret' = Some(get_history(call.arg))
  /\ UNCHANGED <<ledgerVars, hashFailed, scanVars, call>>

\* get_unique_observations returns
GetUniqueReturns ==
  /\ call.fn = "get_unique_observations"
  /\ ret = None
  /\ ret' = Some(get_unique_observations(call.arg.records, call.arg.since,
                                         call.arg.until))
  /\ UNCHANGED <<ledgerVars, hashFailed, scanVars, call>>

\* extract_observation_id returns or raises
ExtractReturns ==
  /\ call.fn = "extract_observation_id"
  /\ ret = None
  /\ ret' = Some(extract_observation_id(call.arg))
  /\ UNCHANGED <<ledgerVars, hashFailed, scanVars, call>>

\* compute_hash returns or raises
ComputeHashReturns ==
  /\ call.fn = "compute_hash"
  /\ ret = None
  /\ ret' = Some(compute_hash(call.arg))
  /\ UNCHANGED <<ledgerVars, hashFailed, scanVars, call>>

\* one function called on its own: no run, no scan
InitCalls ==
  /\ InitOver({FileOf("missing", <<>>)})
  /\ ~token
  /\ NoScan
  /\ call \in FunctionCalls
  /\ ret = None

NextCalls ==
  \/ TryDecodeReturns
  \/ GetHistoryReturns
  \/ GetUniqueReturns
  \/ ExtractReturns
  \/ ComputeHashReturns

SpecCalls == InitCalls /\ [][NextCalls]_vars

(***************************************************************************)
(* Properties                                                              *)
(***************************************************************************)
Range(s) == {s[i] : i \in 1..Len(s)}

IsPrefix(s, t) == Len(s) <= Len(t) /\ SubSeq(t, 1, Len(s)) = s

\* the record sequence the history file holds, as a new HistoryManager reads it
FileRecords(f) == _load(f).records

\* a HistoryManager exists and no call on it is in progress
Idle(p) == pc[p] \in {"ready", "upload", "done", "exit"}

\* create_record has been called and has finished
CallDone(p) == Idle(p) /\ lastCall[p].outcome \in {"returned", "raised"}

\* C1: when two writers append to the same history file concurrently, then once
\* both calls have completed (normally, the file a complete snapshot) the
\* persisted ledger contains both new records: no lost update.
C1_NoLostUpdate ==
  \A p, q \in Procs :
     (/\ p # q
      /\ pc[p] = "done" /\ lastCall[p].outcome = "returned"
      /\ pc[q] = "done" /\ lastCall[q].outcome = "returned"
      /\ file.kind = "object")
     => /\ lastCall[p].record[1] \in Range(FileRecords(file))
        /\ lastCall[q].record[1] \in Range(FileRecords(file))

\* C2: in every reachable state, also during a _save and after a _save that a
\* write error interrupts, the history file holds a complete, valid snapshot of
\* a ledger, never a truncated or partially written record list.
C2_FileAlwaysCompleteSnapshot ==
  file.kind = "missing" \/ (file.kind = "object" /\ LoadTryError(file) = "ok")

\* C3: if persisting the ledger fails during create_record, the failure is
\* raised to the caller and counted by the upload loop; the call never returns
\* normally while the new record is absent from the persisted ledger.
C3_PersistFailureIsRaised ==
  \A p \in Procs :
     CallDone(p) =>
       LET r == lastCall[p].record[1] IN
       /\ lastCall[p].outcome = "returned" => r \in Range(FileRecords(file))
       /\ r \notin Range(FileRecords(file)) =>
            /\ lastCall[p].outcome = "raised"
            /\ failed[p] >= 1
            /\ successful[p] + failed[p] = idx[p] - 1

\* a create_record call whose _save failed has finished
C3_Witness ==
  /\ CallDone(Solo)
  /\ lastCall[Solo].outcome = "raised"
  /\ lastCall[Solo].record[1] \notin Range(FileRecords(file))
  /\ lastCall[Solo].record[1] \in Range(records[Solo])

\* C4, as stated: for a single HistoryManager with no other writer, after its
\* construction and after every create_record call finishes, whether it returns
\* or raises, the in-memory record sequence equals the one stored in the file.
C4_MemoryMirrorsFileAlways ==
  Idle(Solo) => records[Solo] = FileRecords(file)

\* C4, amended: the same after construction and after every create_record call
\* that returns normally; after a call that raises, the in-memory ledger holds
\* the appended record and the file does not.
C4_MemoryMirrorsFileOnReturn ==
  /\ (Idle(Solo) /\ lastCall[Solo].outcome \in {"none", "returned"})
        => records[Solo] = FileRecords(file)
  /\ (Idle(Solo) /\ lastCall[Solo].outcome = "raised")
        => /\ lastCall[Solo].record[1] \in Range(records[Solo])
           /\ lastCall[Solo].record[1] \notin Range(FileRecords(file))

\* a call has returned on a ledger that held a record before it
C4_Witness ==
  /\ Idle(Solo)
  /\ lastCall[Solo].outcome = "returned"
  /\ Len(records[Solo]) >= 2
  /\ records[Solo][Len(records[Solo])].caption # None

\* the (image_hash, observation_id) pairs of a record list
PairsOf(rs) == {<<rs[i].image_hash, rs[i].observation_id>> : i \in 1..Len(rs)}

\* C5: is_duplicate(d, t) is true iff the ledger holds a record with exactly
\* that pair: the pairs loaded at construction and those create_record was
\* called with, no others; and after a call that returned, a new instance
\* constructed from the persisted file answers the same.
C5_IsDuplicateIffPairRecorded ==
  Idle(Solo) =>
    \A d \in Digests, t \in ObsIds :
       /\ is_duplicate(records[Solo], d, t)
            <=> <<d, t>> \in PairsOf(loaded[Solo]) \cup PairsOf(sent[Solo])
       /\ lastCall[Solo].outcome = "returned" =>
            (is_duplicate(FileRecords(file), d, t)
               <=> <<d, t>> \in PairsOf(loaded[Solo]) \cup PairsOf(sent[Solo]))

\* a pair absent at construction is a duplicate after create_record, in this
\* instance and in a new one, while the same hash under another id is not
C5_Witness ==
  /\ Idle(Solo)
  /\ lastCall[Solo].outcome = "returned"
  /\ <<"d1", 1>> \notin PairsOf(loaded[Solo])
  /\ is_duplicate(records[Solo], "d1", 1)
  /\ is_duplicate(FileRecords(file), "d1", 1)
  /\ ~is_duplicate(records[Solo], "d1", 2)

\* C6: records are never deleted: for every create_record call that returns,
\* the record sequence persisted when it was entered is a prefix of the one
\* persisted when it returns (the other operations do not write the file).
C6_PersistedRecordsOnlyGrow ==
  [][\A p \in Procs :
       (lastCall[p].outcome = "running" /\ lastCall'[p].outcome = "returned")
          => IsPrefix(lastCall[p].fileBefore, FileRecords(file'))]_vars

\* C7: constructing a HistoryManager never raises because of the content of the
\* history file.
C7_ConstructNeverRaises ==
  \A p \in Procs : pc[p] # "crashed"

\* C8: create_record appends exactly one record carrying exactly its arguments
\* at the end of the ledger, leaves the earlier records and their order as they
\* were, writes the full ledger to the file before returning, and returns that
\* record.
C8_CreateRecordAppendsAndPersists ==
  (CallDone(Solo) /\ lastCall[Solo].outcome = "returned") =>
     LET c == lastCall[Solo]
         r == c.record[1]
         n == Len(records[Solo])
     IN /\ n = Len(c.prior) + 1
        /\ SubSeq(records[Solo], 1, n - 1) = c.prior
        /\ records[Solo][n] = r
        /\ r.image_hash = c.args.image_hash
        /\ r.observation_id = c.args.observation_id
        /\ r.filename = c.args.filename
        /\ r.caption = c.args.caption
        /\ r.inat_photo_id = c.args.inat_photo_id
        /\ file.kind = "object"
        /\ Len(file.uploads) = n
        /\ \A i \in 1..n : file.uploads[i] = to_dict(records[Solo][i])

\* a call has returned on a ledger that already held two records
C8_Witness ==
  /\ CallDone(Solo)
  /\ lastCall[Solo].outcome = "returned"
  /\ Len(lastCall[Solo].prior) >= 2
  /\ Len(file.uploads) = Len(lastCall[Solo].prior) + 1

\* whether record i of rs carries the pair (d, t)
Matches(rs, i, d, t) == rs[i].image_hash = d /\ rs[i].observation_id = t

\* C9: get_duplicate_record(d, t) returns the first record in ledger order whose
\* pair is exactly (d, t), also when several records share the pair, and None
\* exactly when is_duplicate(d, t) is false.
C9_FirstMatchingRecord ==
  Idle(Solo) =>
    \A d \in Digests, t \in ObsIds :
       LET rs == records[Solo]
           g == get_duplicate_record(rs, d, t)
       IN /\ g = None <=> ~is_duplicate(rs, d, t)
          /\ g = None <=> ~(\E i \in 1..Len(rs) : Matches(rs, i, d, t))
          /\ g # None =>
               \E i \in 1..Len(rs) :
                  /\ rs[i] = g[1]
                  /\ Matches(rs, i, d, t)
                  /\ \A j \in 1..(i - 1) : ~Matches(rs, j, d, t)

\* two different records share the pair and the earlier one is returned
C9_Witness ==
  /\ Idle(Solo)
  /\ \E i, j \in 1..Len(records[Solo]) :
        /\ i < j
        /\ Matches(records[Solo], i, "d1", 1)
        /\ Matches(records[Solo], j, "d1", 1)
        /\ records[Solo][i] # records[Solo][j]
        /\ get_duplicate_record(records[Solo], "d1", 1) = Some(records[Solo][i])

\* C10: after the upload loop, the records added to the ledger are one per item
\* whose upload_photo returned, in order, each carrying the item's digest and
\* observation id, and none for an item whose upload failed.
C10_OneRecordPerSuccessfulUpload ==
  pc[Solo] = "done" =>
    LET base == Len(loaded[Solo]) IN
    /\ Len(records[Solo]) - base = Len(sent[Solo])
    /\ SubSeq(records[Solo], 1, base) = loaded[Solo]
    /\ \A k \in 1..Len(sent[Solo]) :
          /\ records[Solo][base + k].image_hash = sent[Solo][k].image_hash
          /\ records[Solo][base + k].observation_id = sent[Solo][k].observation_id
    /\ successful[Solo] + failed[Solo] = Len(manifest[Solo])
    /\ successful[Solo] <= Len(sent[Solo])

\* a loop over two items has ended, one uploaded and one failed
C10_Witness ==
  /\ pc[Solo] = "done"
  /\ Len(manifest[Solo]) = 2
  /\ Len(sent[Solo]) = 1
  /\ Len(records[Solo]) = Len(loaded[Solo]) + 1

\* C11: every item placed in the manifest is tagged is_duplicate exactly when
\* the ledger, as it was when the manifest was assembled, holds a record with
\* the item's digest and observation id; otherwise it is tagged new.
C11_TaggedIffPairInLedger ==
  \A k \in 1..Len(manifest[Solo]) :
     manifest[Solo][k].is_duplicate <=>
       <<manifest[Solo][k].image_hash, manifest[Solo][k].observation_id>>
         \in PairsOf(loaded[Solo])

\* a manifest went on to the upload loop with one item tagged duplicate and one
\* tagged new
C11_Witness ==
  /\ pc[Solo] = "upload"
  /\ \E j, k \in 1..Len(manifest[Solo]) :
        manifest[Solo][j].is_duplicate /\ ~manifest[Solo][k].is_duplicate

\* C12: scan_batch returns one result per input path, in input order: the
\* i-th result carries the i-th path, and the list stops growing only when it
\* is as long as the input.
C12_OneResultPerPathInOrder ==
  /\ Len(results) <= Len(batch)
  /\ \A i \in 1..Len(results) : results[i].image_path = batch[i].path
  /\ Len(results) < Len(batch) => escaped = None

\* a batch of three different paths has been scanned to its end
C12_Witness ==
  /\ Len(batch) = 3
  /\ Len(results) = 3
  /\ batch[1].path # batch[2].path
  /\ batch[2].path # batch[3].path
  /\ batch[1].path # batch[3].path

\* C13: scan_image never raises: no exception leaves a scan, a missing file
\* gives a result with the 'File not found' message for its path, any other
\* failure gives a result with the generic 'Error scanning image' message that
\* carries the underlying message, and in a batch the paths after a failed one
\* are still scanned.
C13_FailuresBecomeResults ==
  /\ escaped = None
  /\ \A i \in 1..Len(results) :
        LET exc == BodyRaises(batch[i]) IN
        /\ batch[i].status = "missing" =>
             results[i] = ScanResult(batch[i].path, None,
                                     Some(<<"File not found: ", batch[i].path>>))
        /\ batch[i].status \in {"unreadable", "truncated"} =>
             results[i] = ScanResult(batch[i].path, None,
                                     Some(<<"Error scanning image: ", exc[1][2]>>))

\* a batch of three is done: the first file was missing, the second was no
\* image, the third gave an identifier
C13_Witness ==
  /\ Len(batch) = 3
  /\ Len(results) = 3
  /\ batch[1].status = "missing"
  /\ batch[2].status = "unreadable"
  /\ results[1].error # results[2].error
  /\ results[3].observation_id # None

\* C14: when compute_hash fails on one scanned image, manifest assembly is not
\* abandoned: the run goes on and every other scanned image still gets its
\* manifest item.
C14_HashFailureKeepsBatch ==
  \A p \in Procs :
     hashFailed[p] # None =>
       LET h == hashFailed[p][1] IN
       /\ pc[p] # "aborted"
       /\ \A k \in 1..Len(h.scans) :
             k # h.at =>
               \E j \in 1..Len(manifest[p]) :
                  manifest[p][j].filename = h.scans[k].filename

\* C15: every result of scan_image is either Found or NotFound: exactly one of
\* observation_id and error is set, and success is true exactly when
\* observation_id is set.
C15_ExactlyOneOfIdAndError ==
  \A i \in 1..Len(results) :
     /\ (results[i].observation_id = None) # (results[i].error = None)
     /\ success(results[i]) <=> results[i].observation_id # None

\* one batch has given a Found result and a NotFound result
C15_Witness ==
  \E i, j \in 1..Len(results) :
     /\ success(results[i])
     /\ results[i].observation_id = Some(12)
     /\ ~success(results[j])
     /\ results[j].error # None

\* the candidate rasters of an image: the original, then the variants in the
\* order the generator yields them
CandidateOrder(f) ==
  <<Variant(Original(f), <<"original">>)>> \o
  _generate_image_variants(Original(f))

\* the identifier the decoder and the extractor give for a candidate, or None
Yields(f, cand) == _try_decode_qr(decode(f, cand.image))

\* C16: the decode loop returns the identifier of the first candidate raster
\* (the original, then the variants in generation order) that yields one, and
\* the decoder is invoked on the candidates up to that one and on none after it.
C16_FirstYieldingCandidateWins ==
  \A i \in 1..Len(results) :
     LET cands == CandidateOrder(batch[i])
         hits == {k \in 1..Len(cands) : Yields(batch[i], cands[k]) # None}
     IN batch[i].status = "ok" /\ hits # {} =>
          \E k \in hits :
             /\ \A j \in hits : k <= j
             /\ results[i].observation_id = Yields(batch[i], cands[k])
             /\ attempts[i] = SubSeq(cands, 1, k)

\* a scan returned the identifier of a variant although a later candidate
\* would have given another identifier
C16_Witness ==
  \E i \in 1..Len(results) :
     LET cands == CandidateOrder(batch[i]) IN
     /\ results[i].observation_id # None
     /\ Len(attempts[i]) >= 2
     /\ \E j \in (Len(attempts[i]) + 1)..Len(cands) :
           Yields(batch[i], cands[j]) \notin {None, results[i].observation_id}

\* the decoder succeeds on the k-th variant the generator yields for the image,
\* and on no other variant nor on the original
OnlyOnVariant(f, k) ==
  LET variants == _generate_image_variants(Original(f)) IN
  /\ f.status = "ok"
  /\ k \in 1..Len(variants)
  /\ Yields(f, Variant(Original(f), <<"original">>)) = None
  /\ \A j \in 1..Len(variants) : (Yields(f, variants[j]) # None) <=> (j = k)

\* C17 as stated: when the decoder succeeds only on the k-th variant produced by
\* the generator, exactly k decode attempts occur during the scan.
C17_AttemptsEqualVariantIndex ==
  \A i \in 1..Len(results) :
     \A k \in 1..Len(CandidateOrder(batch[i])) :
        OnlyOnVariant(batch[i], k) => Len(attempts[i]) = k

\* C17, amended: when the decoder succeeds only on the k-th variant produced by
\* the generator, exactly k + 1 decode attempts occur during the scan: one on
\* the original, then one on each of the first k variants.
C17_AttemptsAreOriginalPlusVariants ==
  \A i \in 1..Len(results) :
     \A k \in 1..Len(CandidateOrder(batch[i])) :
        OnlyOnVariant(batch[i], k) =>
          /\ Len(attempts[i]) = k + 1
          /\ attempts[i][1] = Variant(Original(batch[i]), <<"original">>)
          /\ SubSeq(attempts[i], 2, k + 1) =
               SubSeq(_generate_image_variants(Original(batch[i])), 1, k)
          /\ results[i].observation_id # None

\* a scan whose decoder succeeds only on the third variant has ended after four
\* attempts
C17_Witness ==
  \E i \in 1..Len(results) :
     OnlyOnVariant(batch[i], 3) /\ Len(attempts[i]) = 4

\* C18: for a target level that the image's longer side does not exceed, the
\* generator produces no entry at all: every variant belongs to a target
\* strictly below the longer side, and the number of variants is three times
\* the number of such targets.
C18_NoEntryForUnexceededLevel ==
  \A i \in 1..Len(results) :
     batch[i].status = "ok" =>
       LET img == Original(batch[i])
           variants == _generate_image_variants(img)
           below == {k \in 1..Len(TargetDims) : TargetDims[k] < Max(img.w, img.h)}
       IN /\ \A j \in 1..Len(variants) :
                variants[j].method[2] < Max(img.w, img.h)
          /\ Len(variants) = 3 * Cardinality(below)

\* C19: for every target level the longer side exceeds, the generator yields
\* three consecutive entries: the resized raster, the resized raster sharpened
\* and the resized raster with contrast enhanced (each filter applied to the
\* plain resized raster, not to the other filter's output); the levels come in
\* the descending order 2048, 1500, 1024, 800; no variant is larger than the
\* source image.
C19_TriplesInDescendingOrder ==
  \A i \in 1..Len(results) :
     batch[i].status = "ok" =>
       LET img == Original(batch[i])
           variants == _generate_image_variants(img)
       IN /\ \A k \in 1..Len(TargetDims) :
                TargetDims[k] < Max(img.w, img.h) =>
                  \E j \in 1..(Len(variants) - 2) :
                     LET resized == variants[j].image IN
                     /\ variants[j].method = <<"resize", TargetDims[k]>>
                     /\ resized.max_dim = TargetDims[k]
                     /\ resized.filters = <<>>
                     /\ variants[j + 1] =
                          Variant([resized EXCEPT !.filters = <<"SHARPEN">>],
                                  <<"resize", TargetDims[k], "sharpen">>)
                     /\ variants[j + 2] =
                          Variant([resized EXCEPT !.filters = <<"Contrast">>],
                                  <<"resize", TargetDims[k], "contrast">>)
          /\ \A j, l \in 1..Len(variants) :
                j < l => variants[j].method[2] >= variants[l].method[2]
          /\ \A j \in 1..Len(variants) :
                /\ variants[j].image.w <= img.w
                /\ variants[j].image.h <= img.h
          /\ SubSeq(attempts[i], 2, Len(attempts[i]))
               = SubSeq(variants, 1, Len(attempts[i]) - 1)

\* a scan of an image above every target level has decoded the original and
\* all twelve variants
C19_Witness ==
  \E i \in 1..Len(results) :
     /\ batch[i].status = "ok"
     /\ Max(batch[i].w, batch[i].h) > TargetDims[1]
     /\ Len(attempts[i]) = 1 + 3 * Len(TargetDims)

\* the decoder returned at least one symbol for some candidate of the i-th scan
SymbolSeen(i) ==
  \E j \in 1..Len(attempts[i]) : decode(batch[i], attempts[i][j].image) # <<>>

\* C20 as stated: when no candidate yields an identifier, scan_image reports
\* 'no QR detected' only if no symbol was decoded, and a distinct outcome if a
\* symbol was decoded anywhere but none matched.
C20_ForeignQrReportedDistinctly ==
  \A i \in 1..Len(results) :
     batch[i].status = "ok" /\ results[i].observation_id = None =>
       (results[i].error = Some(<<"No QR code detected">>) <=> ~SymbolSeen(i))

\* C20, amended: when no candidate yields an identifier, scan_image reports
\* the one outcome 'No QR code detected', whether or not a symbol was decoded;
\* every candidate has been decoded by then.
C20_OneOutcomeForEveryMiss ==
  \A i \in 1..Len(results) :
     batch[i].status = "ok" /\ results[i].observation_id = None =>
       /\ results[i].error = Some(<<"No QR code detected">>)
       /\ attempts[i] = CandidateOrder(batch[i])

\* a scan that decoded a symbol with a foreign text, and no identifier, has
\* reported 'No QR code detected'
C20_Witness ==
  \E i \in 1..Len(results) :
     /\ batch[i].status = "ok"
     /\ SymbolSeen(i)
     /\ results[i] = ScanResult(batch[i].path, None, Some(<<"No QR code detected">>))

\* the text matches the URL pattern somewhere
MatchesPattern(text) == \E i \in 1..Len(text) : MatchAt(text, i) # None

\* the symbols of a list that qualify: QR codes whose bytes are UTF-8 and
\* whose text matches the URL pattern
Qualifying(decoded) ==
  {i \in 1..Len(decoded) :
     /\ decoded[i].type = "QRCODE"
     /\ decoded[i].utf8
     /\ MatchesPattern(decoded[i].text)}

\* C21: for one candidate raster, _try_decode_qr takes the symbols in decoder
\* order, ignores those that are not QR codes, skips a QR code whose bytes are
\* not UTF-8 and goes on, and returns the identifier of the first QR code whose
\* text matches the URL pattern, or None if no symbol qualifies.
C21_FirstQualifyingSymbol ==
  call.fn = "_try_decode_qr" /\ ret # None =>
    LET q == Qualifying(call.arg) IN
    IF q = {} THEN ret[1] = None
    ELSE LET first == CHOOSE i \in q : \A j \in q : i <= j IN
         /\ ~IsRaise(ret[1])
         /\ ret[1] # None
         /\ ret[1] = extract_observation_id(call.arg[first].text)

\* how often a record occurs in a list
CountIn(xs, r) == Cardinality({i \in 1..Len(xs) : xs[i] = r})

\* two lists hold the same records, each as often
SameRecords(xs, ys) ==
  /\ Len(xs) = Len(ys)
  /\ \A r \in Range(xs) \cup Range(ys) : CountIn(xs, r) = CountIn(ys, r)

\* C22: get_history returns every record of the ledger exactly once, ordered by
\* timestamp descending, and leaves the ledger's stored order as it was.
C22_HistoryNewestFirst ==
  call.fn = "get_history" /\ ret # None =>
    /\ SameRecords(ret[1].result, call.arg)
    /\ \A i, j \in 1..Len(ret[1].result) :
          i < j => ret[1].result[i].timestamp >= ret[1].result[j].timestamp
    /\ ret[1].records = call.arg

\* get_history has returned for a ledger of three records stored oldest first
C22_Witness ==
  /\ call.fn = "get_history"
  /\ ret # None
  /\ Len(call.arg) = 3
  /\ call.arg[1].timestamp < call.arg[2].timestamp
  /\ call.arg[2].timestamp < call.arg[3].timestamp
  /\ ret[1].result[1] = call.arg[3]

\* C23: in the mapping get_unique_observations returns, every group is
\* non-empty, holds only records of its key's observation id and is sorted by
\* timestamp oldest first; the groups are iterated in ascending order of their
\* earliest timestamps.
C23_GroupsSortedByEarliest ==
  call.fn = "get_unique_observations" /\ ret # None =>
    LET groups == ret[1] IN
    /\ \A g, h \in 1..Len(groups) : g # h => groups[g].obs_id # groups[h].obs_id
    /\ \A g \in 1..Len(groups) :
          /\ groups[g].records # <<>>
          /\ \A i \in 1..Len(groups[g].records) :
                groups[g].records[i].observation_id = groups[g].obs_id
          /\ \A i, j \in 1..Len(groups[g].records) :
                i < j => groups[g].records[i].timestamp
                           <= groups[g].records[j].timestamp
    /\ \A g, h \in 1..Len(groups) :
          g < h => groups[g].records[1].timestamp
                     <= groups[h].records[1].timestamp

\* the mapping has been returned for a ledger whose first record belongs to the
\* group that comes last, and whose other group is stored newest first
C23_Witness ==
  /\ call.fn = "get_unique_observations"
  /\ ret # None
  /\ Len(call.arg.records) = 3
  /\ Len(ret[1]) = 2
  /\ ret[1][2].obs_id = call.arg.records[1].observation_id
  /\ ret[1][1].records = <<call.arg.records[3], call.arg.records[2]>>
  /\ call.arg.records[3].timestamp < call.arg.records[2].timestamp

RECURSIVE CountInGroups(_, _, _)
\* how often the record occurs in the groups of a mapping, from the g-th on
CountInGroups(groups, g, r) ==
  IF g > Len(groups) THEN 0
  ELSE CountIn(groups[g].records, r) + CountInGroups(groups, g + 1, r)

CapturedSpan(text) ==
  LET i == CHOOSE h \in 1..Len(text) :
             /\ MatchAt(text, h) # None
             /\ \A g \in 1..(h - 1) : MatchAt(text, g) = None
  IN MatchAt(text, i)[1]

\* C25: extract_observation_id never raises, whatever the string: it returns
\* the captured digits as a non-negative integer when the string matches the
\* case-insensitive observation URL pattern, and None for every string that
\* does not match, a URL ending in /observations/ without digits included.
C25_ExtractNeverRaises ==
  call.fn = "extract_observation_id" /\ ret # None =>
    /\ ~IsRaise(ret[1])
    /\ ~MatchesPattern(call.arg) <=> ret[1] = None
    /\ MatchesPattern(call.arg) =>
         LET span == CapturedSpan(call.arg) IN
         DigitCount(call.arg, span[1], span[2]) <= 9 =>
           /\ ret[1] = Some(IntValue(call.arg, span[1], span[2]))
           /\ ret[1][1] >= 0

\* C26: extract_observation_id treats a URL whose digits overflow the
\* identifier's numeric range (here: twenty digits or more, beyond any 64-bit
\* integer) as a non-match: it returns None, no out-of-range identifier, and
\* does not raise.
C26_OverflowIsNoMatch ==
  call.fn = "extract_observation_id" /\ ret # None =>
    (MatchesPattern(call.arg) =>
       LET span == CapturedSpan(call.arg) IN
       DigitCount(call.arg, span[1], span[2]) >= 20 => ret[1] = None)

RECURSIVE BytesLen(_)
\* the number of bytes
BytesLen(bytes) ==
  IF bytes = <<>> THEN 0 ELSE bytes[1].count + BytesLen(Tail(bytes))

\* C27: compute_hash is a function of the file's bytes alone: the digest is
\* that of the whole content, whatever the path and however the content falls
\* into chunks of 8192 bytes; for a file that cannot be opened or read it
\* raises, and returns no digest and no placeholder.
C27_DigestOfBytesOrError ==
  call.fn = "compute_hash" /\ ret # None =>
    IF call.arg.status = "ok"
    THEN ret[1] = Some(hexdigest(call.arg.bytes))
    ELSE IsRaise(ret[1])

\* compute_hash has returned the digest of a file of more than two chunks in
\* which a run of equal bytes crosses a chunk boundary
C27_Witness ==
  /\ call.fn = "compute_hash"
  /\ call.arg.status = "ok"
  /\ ret = Some(Some(hexdigest(call.arg.bytes)))
  /\ BytesLen(call.arg.bytes) > 2 * ChunkSize
  /\ Len(call.arg.bytes) = 2
  /\ call.arg.bytes[1].count = ChunkSize + 1

\* C28: in a run whose manifest has had the duplicates excluded (no item tagged
\* duplicate goes on to the upload loop), no image is uploaded whose (digest,
\* observation id) pair is held by the ledger as it is at the moment of that
\* upload, records the same run created earlier included.
C28_NoUploadOfRecordedPair ==
  /\ \A j \in 1..Len(manifest[Solo]) : ~manifest[Solo][j].is_duplicate
  /\ lastCall[Solo].record # None
  => <<lastCall[Solo].args.image_hash, lastCall[Solo].args.observation_id>>
       \notin PairsOf(lastCall[Solo].prior)

\* C29: scan_image ends every scan with one outcome after a bounded number of
\* decoder invocations: the generator yields at most 12 variants, so a scan
\* decodes at most 13 candidates (the original and the variants) and then has
\* its single result.
C29_AtMostThirteenDecodes ==
  /\ Len(attempts) = Len(results)
  /\ \A i \in 1..Len(attempts) :
        /\ Len(attempts[i]) <= 13
        /\ batch[i].status = "ok" =>
             Len(_generate_image_variants(Original(batch[i]))) <= 12

\* a scan that found no identifier has returned after decoding the original and
\* twelve variants
C29_Witness ==
  \E i \in 1..Len(results) :
     /\ batch[i].status = "ok"
     /\ Len(_generate_image_variants(Original(batch[i]))) = 12
     /\ Len(attempts[i]) = 13
     /\ results[i].observation_id = None

====
